---- MODULE Spec2Model ----
(***************************************************************************)
(* zzimage: the credential ("cookie") pool scheduler of                    *)
(* app/services/cookie_pool.py, the store operations of app/database.py    *)
(* it relies on, and the generation orchestrator of                        *)
(* app/services/image_gen.py (generate / _do_generate /                    *)
(* generate_with_retry).                                                   *)
(*                                                                         *)
(* Execution model.  Every route is an `async def` served by one asyncio   *)
(* event loop and every store call is a synchronous sqlite3 transaction,   *)
(* so a task runs without interruption between two awaits that really      *)
(* suspend.  The awaits that suspend are inside _do_generate: the HTTP     *)
(* post, the backoff sleep and session.close().  pool._lock is never       *)
(* contended (nothing suspends while it is held), so acquiring it does not *)
(* suspend either.  One action below is one such uninterrupted run.        *)
(***************************************************************************)
EXTENDS Integers, Sequences, FiniteSets, TLC

(* ------------------------------ bounds --------------------------------- *)
MaxCookies == 2        \* credential ids 1..MaxCookies
MaxReqs == 2           \* concurrent generate_with_retry requests
MaxDay == 2            \* calendar days 1..MaxDay
MaxTicks == 2          \* clock advances
\* config.py:50 reads DAILY_QUOTA from the environment (default 100); the
\* model runs the deployment DAILY_QUOTA=2.
DAILY_QUOTA == 2
MaxSessions == 2       \* session tokens 1..MaxSessions
MaxModels == 3         \* model configuration ids and names 1..MaxModels
MaxKeys == 1           \* API key ids 1..MaxKeys
MaxSessionTicks == 4   \* advances of the clock by half a session lifetime

(* ------------------------- program constants --------------------------- *)
MAX_IMAGE_SIZE == 2048
MIN_IMAGE_SIZE == 256
MAX_RETRIES == 3
max_cookie_retries == 3
cache_ttl == 30
RETRY_DELAY == 1
SESSION_EXPIRE_HOURS == 168
ERROR_WARN == 10       \* error_count from which mark_cookie_used logs a warning

Ids == 1..MaxCookies
Tokens == 1..MaxSessions
ModelIds == 1..MaxModels
KeyIds == 1..MaxKeys
Reqs == 1..MaxReqs
NULL == 0              \* SQL NULL of daily_date / None; days are 1..MaxDay
NoTime == 0 - 1        \* _cache_time = None
TickSeconds == cache_ttl + 1
MaxNow == MaxTicks * TickSeconds

VARIABLES
  cookies,        \* table cookies: id -> row
  next_id,        \* AUTOINCREMENT: the id the next INSERT gets
  today,          \* datetime.now().strftime("%Y-%m-%d")
  now,            \* datetime.now(), in seconds
  cookies_cache,  \* CookiePool._cookies_cache
  current_index,  \* CookiePool._current_index (0-based)
  cache_time,     \* CookiePool._cache_time
  req,            \* per request: the locals of generate_with_retry/generate/_do_generate
  logs,           \* table generation_logs, the rows each request inserted, in order
  marks,          \* history: the mark_cookie_used calls each request made
  calls,          \* history: the HTTP posts each request made
  hist,           \* history: the backend answers of the current _do_generate call
  streak,         \* history: the credentials the latest get_next_cookie calls returned
  cookies0,       \* history: the table cookies at process start
  lock,           \* CookiePool._lock: the request that holds it, 0 when free
  prompt,         \* per request: the prompt length and the step count passed in
  sel,            \* history: what each get_next_cookie call of a request returned
  picks,          \* history: the latest credentials returned to any request
  writes,         \* history: who wrote the scheduler state, and whether under the lock
  peak,           \* history: the largest number of requests in flight at once so far
  sessions,       \* table sessions: token -> row
  tokens,         \* history: per token, when login issued it, its logout, its last verification
  model_configs,  \* table model_configs: id -> row
  next_model_id,  \* AUTOINCREMENT of model_configs
  api_keys,       \* table api_keys: id -> row
  next_key_id     \* AUTOINCREMENT of api_keys

store_vars == <<cookies, next_id>>
clock_vars == <<today, now>>
pool_vars == <<cookies_cache, current_index, cache_time>>
req_vars == <<req, logs, marks, calls, hist>>
sched_hist == <<sel, picks, writes>>
session_vars == <<sessions, tokens>>
model_vars == <<model_configs, next_model_id>>
key_vars == <<api_keys, next_key_id>>
vars == <<cookies, next_id, today, now, cookies_cache, current_index, cache_time,
          req, logs, marks, calls, hist, streak, cookies0, lock, prompt, sel,
          picks, writes, peak, sessions, tokens, model_configs, next_model_id,
          api_keys, next_key_id>>

(* ------------------------------ the store ------------------------------ *)
NoRow == [exists |-> FALSE, is_active |-> FALSE, use_count |-> 0,
          error_count |-> 0, daily_used |-> 0, daily_date |-> NULL]

\* INSERT INTO cookies (name, cookie_value, socks5_proxy, is_active): the
\* counters take their column defaults, daily_date is NULL.
NewRow(active) == [exists |-> TRUE, is_active |-> active, use_count |-> 0,
                   error_count |-> 0, daily_used |-> 0, daily_date |-> NULL]

row_to_cookie(tbl, id) ==
  [id |-> id, is_active |-> tbl[id].is_active, use_count |-> tbl[id].use_count,
   error_count |-> tbl[id].error_count, daily_used |-> tbl[id].daily_used,
   daily_date |-> tbl[id].daily_date]

\* ORDER BY use_count ASC; sqlite returns equal keys in rowid order.
OrderBefore(tbl, a, b) ==
  \/ tbl[a].use_count < tbl[b].use_count
  \/ tbl[a].use_count = tbl[b].use_count /\ a < b

RECURSIVE OrderBy(_, _)
OrderBy(tbl, S) ==
  IF S = {} THEN <<>>
  ELSE LET m == CHOOSE a \in S : \A b \in S \ {a} : OrderBefore(tbl, a, b)
       IN <<m>> \o OrderBy(tbl, S \ {m})

\* get_all_cookies(active_only=True)
get_all_cookies(tbl) ==
  LET s == OrderBy(tbl, {i \in Ids : tbl[i].exists /\ tbl[i].is_active})
  IN [k \in 1..Len(s) |-> row_to_cookie(tbl, s[k])]

get_cookie_daily_usage(tbl, day, id) ==
  IF id \in Ids /\ tbl[id].exists /\ tbl[id].daily_date = day
  THEN tbl[id].daily_used
  ELSE 0

\* mutant of UsageReset: the reset is not guarded by the date
UsageResetAlways(row, day) ==
  [row EXCEPT !.daily_used = 0, !.daily_date = day]

\* mutant of UsageReset: the rollover clears the lifetime counters as well
UsageResetLifetime(row, day) ==
  IF row.daily_date # day
  THEN [row EXCEPT !.daily_used = 0, !.daily_date = day, !.use_count = 0,
                   !.error_count = 0]
  ELSE row

UsageReset(row, day) ==
  IF row.daily_date # day
  THEN [row EXCEPT !.daily_used = 0, !.daily_date = day]
  ELSE row

\* mutant of UsageCount: a failure counts as a use as well
UsageCountFailureUses(row, day, success) ==
  IF success
  THEN [row EXCEPT !.use_count = @ + 1, !.daily_used = @ + 1, !.daily_date = day]
  ELSE [row EXCEPT !.use_count = @ + 1, !.error_count = @ + 1]

\* mutant of UsageCount: a success counts in the daily window only
UsageCountDailyOnly(row, day, success) ==
  IF success
  THEN [row EXCEPT !.daily_used = @ + 1, !.daily_date = day]
  ELSE [row EXCEPT !.error_count = @ + 1]

UsageCount(row, day, success) ==
  IF success
  THEN [row EXCEPT !.use_count = @ + 1, !.daily_used = @ + 1, !.daily_date = day]
  ELSE [row EXCEPT !.error_count = @ + 1]

\* UPDATE cookies SET daily_used = 0, daily_date = today
\* WHERE id = ? AND (daily_date IS NULL OR daily_date != today)
reset_daily_usage_if_needed(tbl, day, id) ==
  IF id \in Ids /\ tbl[id].exists /\ tbl[id].daily_date # day
  THEN [tbl EXCEPT ![id].daily_used = 0, ![id].daily_date = day]
  ELSE tbl

\* mutant of update_cookie_usage: a missing row is inserted
update_cookie_usage_upsert(tbl, day, id, success) ==
  IF id \in Ids
  THEN LET row == IF tbl[id].exists THEN tbl[id] ELSE NewRow(TRUE)
       IN [tbl EXCEPT ![id] = UsageCount(UsageReset(row, day), day, success)]
  ELSE tbl

update_cookie_usage(tbl, day, id, success) ==
  IF id \in Ids /\ tbl[id].exists
  THEN [tbl EXCEPT ![id] = UsageCount(UsageReset(tbl[id], day), day, success)]
  ELSE tbl

(* ------------------- the store: model configurations ------------------- *)
ModelNames == 1..MaxModels

NoModel == [exists |-> FALSE, name |-> 0, is_default |-> FALSE,
            width |-> 0, height |-> 0, steps |-> 0]

\* The ModelConfig object a caller passes: its name, its default flag and
\* its width, height and steps (shape).
ModelInput(name, is_default, shape) ==
  [name |-> name, is_default |-> is_default,
   width |-> shape[1], height |-> shape[2], steps |-> shape[3]]

ModelRow(model) ==
  [exists |-> TRUE, name |-> model.name, is_default |-> model.is_default,
   width |-> model.width, height |-> model.height, steps |-> model.steps]

NameTaken(tbl, name, except) ==
  \E m \in ModelIds \ {except} : tbl[m].exists /\ tbl[m].name = name

\* UPDATE model_configs SET is_default = 0 [WHERE id != ?]
ClearDefaults(tbl, except) ==
  [m \in ModelIds |->
     IF tbl[m].exists /\ m # except THEN [tbl[m] EXCEPT !.is_default = FALSE]
     ELSE tbl[m]]

\* mutant of add_model_config: the other defaults are left as they are
add_model_config_keep_defaults(tbl, id, model) ==
  IF NameTaken(tbl, model.name, 0)
  THEN tbl
  ELSE [tbl EXCEPT ![id] = ModelRow(model)]

\* add_model_config; name is UNIQUE: a duplicate makes the INSERT raise
\* and get_connection rolls the transaction back.
add_model_config(tbl, id, model) ==
  IF NameTaken(tbl, model.name, 0)
  THEN tbl
  ELSE LET cleared == IF model.is_default THEN ClearDefaults(tbl, 0) ELSE tbl
       IN [cleared EXCEPT ![id] = ModelRow(model)]

\* update_model_config; the UPDATE of a missing id matches no row.
update_model_config(tbl, id, model) ==
  IF tbl[id].exists /\ NameTaken(tbl, model.name, id)
  THEN tbl
  ELSE LET cleared == IF model.is_default THEN ClearDefaults(tbl, id) ELSE tbl
       IN IF tbl[id].exists
          THEN [cleared EXCEPT ![id] = ModelRow(model)]
          ELSE cleared

\* DELETE FROM model_configs WHERE id = ?
delete_model_config(tbl, id) == [tbl EXCEPT ![id] = NoModel]

Defaults(tbl) == {m \in ModelIds : tbl[m].exists /\ tbl[m].is_default}

\* SELECT * FROM model_configs WHERE name = ?: the row, NoModel if none
get_model_config_by_name(tbl, name) ==
  IF \E m \in ModelIds : tbl[m].exists /\ tbl[m].name = name
  THEN tbl[CHOOSE m \in ModelIds : tbl[m].exists /\ tbl[m].name = name]
  ELSE NoModel

\* SELECT * FROM model_configs WHERE is_default = 1 LIMIT 1
get_default_model_config(tbl) ==
  IF Defaults(tbl) = {}
  THEN NoModel
  ELSE tbl[CHOOSE m \in Defaults(tbl) : \A n \in Defaults(tbl) : m <= n]

(* -------------------------- the store: API keys ------------------------ *)
\* A row of api_keys.  Its key is the random string create_api_key drew for
\* it, "sk-" and secrets.token_urlsafe(32): the string identifies the row.
NoKey == [exists |-> FALSE, is_active |-> FALSE]

\* INSERT INTO api_keys (key, name, is_active)
add_api_key(keys, id, is_active) ==
  [keys EXCEPT ![id] = [exists |-> TRUE, is_active |-> is_active]]

\* DELETE FROM api_keys WHERE id = ?
delete_api_key(keys, id) == [keys EXCEPT ![id] = NoKey]

\* SELECT * FROM api_keys WHERE key = ? AND is_active = 1, for the key
\* string of row `key`: the row, NoKey if none
get_api_key_by_key(keys, key) ==
  IF key \in KeyIds /\ keys[key].exists /\ keys[key].is_active
  THEN keys[key]
  ELSE NoKey

(* --------------------------- the scheduler ----------------------------- *)
Pool == [cache |-> cookies_cache, index |-> current_index, time |-> cache_time]

CacheExpired(p, t) == p.time = NoTime \/ t - p.time > cache_ttl

\* mutant of refresh_cache: the cursor is kept whatever the new length
refresh_cache_keep_index(p, tbl, t, force) ==
  IF force \/ CacheExpired(p, t)
  THEN [cache |-> get_all_cookies(tbl), time |-> t, index |-> p.index]
  ELSE p

\* mutant of refresh_cache: every reload puts the cursor back to 0
refresh_cache_reset_index(p, tbl, t, force) ==
  IF force \/ CacheExpired(p, t)
  THEN [cache |-> get_all_cookies(tbl), time |-> t, index |-> 0]
  ELSE p

refresh_cache(p, tbl, t, force) ==
  IF force \/ CacheExpired(p, t)
  THEN LET c == get_all_cookies(tbl)
       IN [cache |-> c, time |-> t,
           index |-> IF p.index >= Len(c) THEN 0 ELSE p.index]
  ELSE p

NoCookie == [id |-> 0]

\* mutant of HasQuota: the comparison is off by one
HasQuotaInclusive(daily_used) == daily_used <= DAILY_QUOTA

\* mutant of HasQuota: the usage is not tested
HasQuotaAlways(daily_used) == daily_used >= 0

HasQuota(daily_used) == daily_used < DAILY_QUOTA

\* mutant of AdvanceIndex: the cursor is left where it was
AdvanceIndexStuck(p) == p

\* self._current_index = (self._current_index + 1) % len(self._cookies_cache)
AdvanceIndex(p) == [p EXCEPT !.index = (p.index + 1) % Len(p.cache)]

\* mutant of probes_left: one probe too many
probes_left_extra(p, attempts) == attempts <= Len(p.cache)

\* while attempts < max_attempts
probes_left(p, attempts) == attempts < Len(p.cache)

\* the while loop of get_next_cookie, from `attempts` probes made
RECURSIVE Probe(_, _, _, _)
Probe(p, tbl, day, attempts) ==
  IF ~probes_left(p, attempts)
  THEN [cookie |-> NoCookie, pool |-> p]
  ELSE LET cookie == p.cache[p.index + 1]
           q == AdvanceIndex(p)
       IN IF HasQuota(get_cookie_daily_usage(tbl, day, cookie.id))
          THEN [cookie |-> cookie, pool |-> q]
          ELSE Probe(q, tbl, day, attempts + 1)

\* mutant of get_next_cookie: the cursor the call leaves is the one it
\* found, as if two calls had read it at the same time
get_next_cookie_unserialized(p, tbl, t, day) ==
  LET q == refresh_cache(p, tbl, t, FALSE)
  IN IF Len(q.cache) = 0
     THEN [cookie |-> NoCookie, pool |-> q]
     ELSE [cookie |-> Probe(q, tbl, day, 0).cookie, pool |-> q]

get_next_cookie(p, tbl, t, day) ==
  LET q == refresh_cache(p, tbl, t, FALSE)
  IN IF Len(q.cache) = 0
     THEN [cookie |-> NoCookie, pool |-> q]
     ELSE Probe(q, tbl, day, 0)

\* mutant of get_cookie_remaining_quota: the difference is not floored
get_cookie_remaining_quota_unfloored(tbl, day, id) ==
  DAILY_QUOTA - get_cookie_daily_usage(tbl, day, id)

get_cookie_remaining_quota(tbl, day, id) ==
  LET daily_used == get_cookie_daily_usage(tbl, day, id)
  IN IF DAILY_QUOTA - daily_used > 0 THEN DAILY_QUOTA - daily_used ELSE 0

(* --------------------------- the orchestrator -------------------------- *)
\* GenerationResult; image_url / image_base64 say whether the field is set.
NoResult == [success |-> FALSE, image_url |-> FALSE, image_base64 |-> FALSE,
             error |-> "none", all_failed |-> FALSE]
Failure(msg) == [success |-> FALSE, image_url |-> FALSE, image_base64 |-> FALSE,
                 error |-> msg, all_failed |-> FALSE]
\* mutant of Success: a success that carries no image
SuccessNoImage(url, b64) == [success |-> TRUE, image_url |-> FALSE,
                             image_base64 |-> FALSE, error |-> "none",
                             all_failed |-> FALSE]

Success(url, b64) == [success |-> TRUE, image_url |-> url, image_base64 |-> b64,
                      error |-> "none", all_failed |-> FALSE]
\* generate_with_retry's last return: "所有Cookie都失败: {last_error}"
AllFailed(last_error) == [success |-> FALSE, image_url |-> FALSE,
                          image_base64 |-> FALSE, error |-> last_error,
                          all_failed |-> TRUE]

\* mutant of validate_size: the limits themselves are rejected
validate_size_strict(width, height) ==
  IF width <= MIN_IMAGE_SIZE \/ height <= MIN_IMAGE_SIZE
  THEN [valid |-> FALSE, error |-> "size_too_small"]
  ELSE IF width >= MAX_IMAGE_SIZE \/ height >= MAX_IMAGE_SIZE
       THEN [valid |-> FALSE, error |-> "size_too_large"]
       ELSE [valid |-> TRUE, error |-> "none"]

validate_size(width, height) ==
  IF width < MIN_IMAGE_SIZE \/ height < MIN_IMAGE_SIZE
  THEN [valid |-> FALSE, error |-> "size_too_small"]
  ELSE IF width > MAX_IMAGE_SIZE \/ height > MAX_IMAGE_SIZE
       THEN [valid |-> FALSE, error |-> "size_too_large"]
       ELSE [valid |-> TRUE, error |-> "none"]

\* What the backend can answer to one HTTP post.
Kinds == {"ok_b64", "ok_both", "ok_url", "ok_noimage", "ok_badformat",
          "ok_notjson", "rate_limited", "auth_invalid", "bad_request",
          "server_error", "transport", "timeout"}

\* One pass of the body of `for attempt in range(MAX_RETRIES)` in
\* _do_generate on the answer `kind`: return a result, or sleep and loop.
Return(result) == [act |-> "return", result |-> result, delay |-> 0]
\* await asyncio.sleep(delay), then the next pass
Sleep(delay) == [act |-> "sleep", result |-> NoResult, delay |-> delay]

\* mutant of OnRateLimited: a 429 ends the attempt like any other error status
OnRateLimitedFails(attempt) == Return(Failure("api_error"))

\* mutant of OnRateLimited: the delay does not grow with the attempt
OnRateLimitedFlat(attempt) == Sleep(RETRY_DELAY)

\* await asyncio.sleep(RETRY_DELAY * (attempt + 1))
OnRateLimited(attempt) == Sleep(RETRY_DELAY * (attempt + 1))

\* mutant of OnTransport: a transport error ends the attempt at once
OnTransportNoRetry(attempt) == Return(Failure("request_failed"))

OnTransport(attempt) ==
  IF attempt < MAX_RETRIES - 1
  THEN Sleep(RETRY_DELAY)
  ELSE Return(Failure("request_failed"))

\* mutant of OnServerError: the status is retried like a transport error
OnServerErrorRetries(attempt) ==
  IF attempt < MAX_RETRIES - 1 THEN Sleep(RETRY_DELAY) ELSE Return(Failure("api_error"))

\* the else branch of the status dispatch: any status but 200, 429, 401, 400
OnServerError(attempt) == Return(Failure("api_error"))

Answer(kind, attempt) ==
  CASE kind = "ok_b64" -> Return(Success(FALSE, TRUE))
    \* b64_json and url both present: the b64 branch passes the url on
    [] kind = "ok_both" -> Return(Success(TRUE, TRUE))
    [] kind = "ok_url" -> Return(Success(TRUE, FALSE))
    [] kind = "ok_noimage" -> Return(Failure("no_image"))
    [] kind = "ok_badformat" -> Return(Failure("bad_format"))
    \* the body is no JSON: json.loads raises, the outer `except Exception`
    \* returns
    [] kind = "ok_notjson" -> Return(Failure("internal_error"))
    [] kind = "rate_limited" -> OnRateLimited(attempt)
    [] kind = "auth_invalid" -> Return(Failure("auth_invalid"))
    [] kind = "bad_request" -> Return(Failure("bad_request"))
    [] kind = "server_error" -> OnServerError(attempt)
    [] kind = "transport" -> OnTransport(attempt)
    \* the total timeout raises asyncio.TimeoutError, which is no
    \* aiohttp.ClientError: the outer `except Exception` returns
    [] kind = "timeout" -> Return(Failure("internal_error"))

\* `if cookie and cookie.error_count >= 10`: the warning is logged
TooManyErrors(tbl, id, success) ==
  ~success /\ id \in Ids /\ tbl[id].exists /\ tbl[id].error_count >= ERROR_WARN

\* mutant of mark_cookie_used: a credential with too many errors is
\* deactivated
mark_cookie_used_disables(p, tbl, t, day, id, success) ==
  LET tbl1 == update_cookie_usage(tbl, day, id, success)
      tbl2 == IF TooManyErrors(tbl1, id, success)
              THEN [tbl1 EXCEPT ![id].is_active = FALSE]
              ELSE tbl1
  IN [tbl |-> tbl2, pool |-> refresh_cache(p, tbl2, t, TRUE),
      warned |-> TooManyErrors(tbl1, id, success)]

\* mark_cookie_used: the store update, the warning, then the forced refresh.
mark_cookie_used(p, tbl, t, day, id, success) ==
  LET tbl1 == update_cookie_usage(tbl, day, id, success)
  IN [tbl |-> tbl1, pool |-> refresh_cache(p, tbl1, t, TRUE),
      warned |-> TooManyErrors(tbl1, id, success)]

\* mutant of NoCookieResult: the error field is left unset
NoCookieResultUnset == Failure("none")

NoCookieResult == Failure("no_cookie")

\* generate, up to the call of _do_generate: the size check, then the
\* selection.  cookie_id = 0: generate returned `result` at once.
generate_select(width, height, p, tbl, t, day) ==
  LET v == validate_size(width, height)
      s == get_next_cookie(p, tbl, t, day)
  IN IF ~v.valid
     THEN [cookie_id |-> 0, pool |-> p, result |-> Failure(v.error)]
     ELSE IF s.cookie.id = 0
          THEN [cookie_id |-> 0, pool |-> s.pool, result |-> NoCookieResult]
          ELSE [cookie_id |-> s.cookie.id, pool |-> s.pool, result |-> NoResult]

\* mutant of retry_in_range: one iteration too many
retry_in_range_late(i) == i <= max_cookie_retries

\* for i in range(max_cookie_retries)
retry_in_range(i) == i < max_cookie_retries

\* mutant of last_error_after: the first error is kept
last_error_kept(last_error, error) ==
  IF last_error = "none" THEN error ELSE last_error

\* last_error = result.error
last_error_after(last_error, error) == error

\* generate_with_retry from iteration i, up to the first HTTP post
\* (pc "http") or to its return (pc "done"): nothing in between suspends.
RECURSIVE RetryLoop(_, _, _, _, _, _, _, _)
RetryLoop(i, last_error, width, height, p, tbl, t, day) ==
  IF ~retry_in_range(i)
  THEN [pc |-> "done", i |-> i, cookie_id |-> 0, pool |-> p,
        last_error |-> last_error, result |-> AllFailed(last_error)]
  ELSE LET g == generate_select(width, height, p, tbl, t, day)
       IN IF g.cookie_id = 0
          THEN RetryLoop(i + 1, last_error_after(last_error, g.result.error),
                         width, height, g.pool, tbl, t, day)
          ELSE [pc |-> "http", i |-> i, cookie_id |-> g.cookie_id, pool |-> g.pool,
                last_error |-> last_error, result |-> NoResult]

\* DEFAULT_STEPS of ImageGenerator
DEFAULT_STEPS == 9
\* generate's default width and height
DefaultSize == 1024
\* the limits of GenerateRequest.prompt and .num_inference_steps
MAX_PROMPT_LENGTH == 4000
MIN_STEPS == 1
MAX_STEPS == 50
\* the prompt and step count of a well-formed request
DefaultPrompt == [len |-> 1, steps |-> DEFAULT_STEPS]

IdleReq == [pc |-> "idle", width |-> 0, height |-> 0, i |-> 0, attempt |-> 0,
            delay |-> 0,
            cookie_id |-> 0, result |-> NoResult, last_error |-> "none"]

\* mutant of LogRow: the status does not follow the result
LogRowAlwaysSuccess(cookie_id, result) ==
  [cookie_id |-> cookie_id, status |-> "success", error_message |-> result.error]

LogRow(cookie_id, result) ==
  [cookie_id |-> cookie_id,
   status |-> IF result.success THEN "success" ELSE "failed",
   error_message |-> result.error]

(* ------------------------ the lock and the history --------------------- *)
\* `async with self._lock` in get_next_cookie: the lock is taken on entry
\* (the caller waits until it is free) and given back on every return.
acquire(l, r) == r

\* mutant of release: the lock is kept when get_next_cookie returns
release_omitted(l) == l

release(l) == NULL

\* What the get_next_cookie calls of one run of generate_with_retry from
\* iteration i0 returned, in order (0: none); an invalid size makes no call.
SelsOf(i0, out, width, height) ==
  IF ~validate_size(width, height).valid
  THEN <<>>
  ELSE [k \in 1..(out.i - i0) |-> 0]
         \o (IF out.pc = "http" THEN <<out.cookie_id>> ELSE <<>>)

\* The credentials get_next_cookie may return: active and under quota.
Eligible(tbl, day) ==
  {id \in Ids : /\ tbl[id].exists /\ tbl[id].is_active
                /\ get_cookie_daily_usage(tbl, day, id) < DAILY_QUOTA}

LastN(s, n) == IF Len(s) <= n THEN s ELSE SubSeq(s, Len(s) - n + 1, Len(s))

\* picks after a step that left the store as tbl on day `day` and in which
\* get_next_cookie returned the credential id (0: returned none): the
\* credentials returned since the eligible set last changed, the latest N
\* of them, N the size of that set.
PicksAfter(pk, id, tbl, day) ==
  LET e == Eligible(tbl, day)
      base == IF e = pk.elig THEN pk.ids ELSE <<>>
  IN [elig |-> e,
      ids |-> IF id = 0 THEN base ELSE LastN(Append(base, id), Cardinality(e))]

\* get_next_cookie writes the cache and its time when the cache has expired
\* and the cursor when the cache is not empty; holder is the lock's holder
\* while it runs.
SelectWrites(n, p, t, holder, r) ==
  IF n > 0 /\ (CacheExpired(p, t) \/ Len(p.cache) > 0)
  THEN {[by |-> "get_next_cookie", locked |-> holder = r]}
  ELSE {}

\* mark_cookie_used ends with _refresh_cache(force=True), which writes the
\* cache, its time and possibly the cursor; l is the lock's holder then.
MarkWrites(l, r) == {[by |-> "mark_cookie_used", locked |-> l = r]}

\* get_cookie_stats starts with _refresh_cache(), which writes when the
\* cache has expired; the route's task never takes the lock.
StatsWrites(p, t) ==
  IF CacheExpired(p, t)
  THEN {[by |-> "get_cookie_stats", locked |-> FALSE]}
  ELSE {}

(* ------------------------------ actions -------------------------------- *)
SetPool(p) ==
  /\ cookies_cache' = p.cache
  /\ current_index' = p.index
  /\ cache_time' = p.time

CacheIds(cache) == [k \in 1..Len(cache) |-> cache[k].id]

AllUnderQuota(cache, tbl, day) ==
  \A k \in 1..Len(cache) : get_cookie_daily_usage(tbl, day, cache[k].id) < DAILY_QUOTA

\* streak after a run of generate_with_retry that started with the cache
\* `before` and ended as `out`: the credentials returned by the
\* get_next_cookie calls made since the store or the order of the cache last
\* changed, each call made with every cached credential under quota.
StreakAfter(base, before, out, tbl, day) ==
  IF out.pc # "http" \/ ~AllUnderQuota(out.pool.cache, tbl, day)
  THEN <<>>
  ELSE IF CacheIds(before) = CacheIds(out.pool.cache)
       THEN Append(base, out.cookie_id)
       ELSE <<out.cookie_id>>

\* The requests between their first selection and their return.
Running(rq) == {q \in Reqs : rq[q].pc \in {"http", "sleep", "closing"}}

PeakAfter(pk, rq) ==
  IF Cardinality(Running(rq)) > pk THEN Cardinality(Running(rq)) ELSE pk

\* generate_with_retry is called: it runs to its first HTTP post, or to its
\* return when no iteration obtains a credential.
Start(r, width, height) ==
  /\ req[r].pc = "idle"
  /\ lock = NULL
  /\ LET out == RetryLoop(0, "none", width, height, Pool, cookies, now, today)
     IN /\ req' = [req EXCEPT ![r] = [pc |-> out.pc, width |-> width,
                     height |-> height, i |-> out.i, attempt |-> 0,
                     delay |-> 0,
                     cookie_id |-> out.cookie_id, result |-> out.result,
                     last_error |-> out.last_error]]
        /\ SetPool(out.pool)
        /\ calls' = [calls EXCEPT ![r] = IF out.pc = "http" THEN 1 ELSE 0]
        /\ streak' = StreakAfter(streak, cookies_cache, out, cookies, today)
        /\ sel' = [sel EXCEPT ![r] = SelsOf(0, out, width, height)]
        /\ picks' = PicksAfter(picks, out.cookie_id, cookies, today)
        /\ writes' = writes \cup SelectWrites(Len(sel'[r]), Pool, now,
                                              acquire(lock, r), r)
        /\ lock' = IF Len(sel'[r]) > 0 THEN release(acquire(lock, r)) ELSE lock
  /\ hist' = [hist EXCEPT ![r] = <<>>]
  /\ peak' = PeakAfter(peak, req')
  /\ UNCHANGED <<store_vars, clock_vars, logs, marks, cookies0, key_vars, session_vars,
                 model_vars>>

\* A request with a well-formed prompt arrives.
Begin(r, width, height) ==
  /\ Start(r, width, height)
  /\ UNCHANGED prompt

\* A request: the Authorization header (NoHeader, or the key string of an
\* api_keys row), the model it names, the length of its prompt and the
\* numbers it gives (NoSteps, NoSize: it gives none).  On the chat route
\* the numbers are options of the last user message, "--steps N" and
\* "--size WxH" or "--width W", "--height H", and len is the length of
\* the message once the options are cut out of it.
NoHeader == 0
NoSteps == 0 - 1
NoSize == 0 - 1
Request(authorization, model, len, steps, width, height) ==
  [authorization |-> authorization, model |-> model, len |-> len,
   steps |-> steps, width |-> width, height |-> height]

\* What a route passes to generate_with_retry, if it calls it.
Rejected == [accepted |-> FALSE, len |-> 0, steps |-> NoSteps,
             width |-> 0, height |-> 0]
Accepted(len, steps, width, height) ==
  [accepted |-> TRUE, len |-> len, steps |-> steps,
   width |-> width, height |-> height]

\* Depends(verify_api_key): 401 without a header or without an active row
\* for the key.
verify_api_key(keys, authorization) ==
  /\ authorization # NoHeader
  /\ get_api_key_by_key(keys, authorization).exists

\* A field the request leaves out takes its default.
FieldOr(x, default) == IF x = NoSize THEN default ELSE x

\* POST /api/generate: the fields of GenerateRequest are checked by pydantic
\* (steps NoSteps: the field is null and is passed on as None).
route_generate(len, steps, width, height) ==
  IF /\ len >= 1 /\ len <= MAX_PROMPT_LENGTH
     /\ steps = NoSteps \/ (steps >= MIN_STEPS /\ steps <= MAX_STEPS)
     /\ width >= MIN_IMAGE_SIZE /\ width <= MAX_IMAGE_SIZE
     /\ height >= MIN_IMAGE_SIZE /\ height <= MAX_IMAGE_SIZE
  THEN Accepted(len, steps, width, height)
  ELSE Rejected

\* POST /v1/images/generations: ImageGenerationRequest checks the prompt, the
\* route checks the size and passes no step count.
route_images(len, width, height) ==
  IF /\ len >= 1 /\ len <= MAX_PROMPT_LENGTH
     /\ ~(width < MIN_IMAGE_SIZE \/ height < MIN_IMAGE_SIZE)
     /\ ~(width > MAX_IMAGE_SIZE \/ height > MAX_IMAGE_SIZE)
  THEN Accepted(len, NoSteps, width, height)
  ELSE Rejected

Clamp(lo, hi, x) == IF x < lo THEN lo ELSE IF x > hi THEN hi ELSE x

\* The width, height and steps extract_image_params_from_messages starts
\* from: those of the configuration the request names, else of the default
\* configuration, else 1024, 1024 and 9.
BaseParams(tbl, model) ==
  LET named == get_model_config_by_name(tbl, model)
      default == get_default_model_config(tbl)
  IN IF named.exists THEN named
     ELSE IF default.exists THEN default
     ELSE [NoModel EXCEPT !.width = DefaultSize, !.height = DefaultSize,
                          !.steps = DEFAULT_STEPS]

\* extract_image_params_from_messages: the message is refused only if it
\* is empty as a whole; the options replace the numbers of the
\* configuration and the numbers are clamped.
extract_image_params_from_messages(tbl, rq) ==
  IF rq.len = 0 /\ rq.steps = NoSteps /\ rq.width = NoSize /\ rq.height = NoSize
  THEN Rejected
  ELSE LET base == BaseParams(tbl, rq.model)
       IN Accepted(rq.len,
                   Clamp(MIN_STEPS, MAX_STEPS,
                         IF rq.steps = NoSteps THEN base.steps ELSE rq.steps),
                   Clamp(MIN_IMAGE_SIZE, MAX_IMAGE_SIZE,
                         FieldOr(rq.width, base.width)),
                   Clamp(MIN_IMAGE_SIZE, MAX_IMAGE_SIZE,
                         FieldOr(rq.height, base.height)))

\* POST /v1/chat/completions, create_chat_completion: 404 when the store
\* has neither the configuration the request names nor a default one.
route_chat(tbl, rq) ==
  IF /\ ~get_model_config_by_name(tbl, rq.model).exists
     /\ ~get_default_model_config(tbl).exists
  THEN Rejected
  ELSE extract_image_params_from_messages(tbl, rq)

Routes == {"generate", "images", "chat"}

\* The routes under /v1 depend on verify_api_key, /api/generate does not.
RouteCall(route, rq, keys, tbl) ==
  CASE route = "generate" ->
         route_generate(rq.len, rq.steps, FieldOr(rq.width, DefaultSize),
                        FieldOr(rq.height, DefaultSize))
    [] route = "images" ->
         IF verify_api_key(keys, rq.authorization)
         THEN route_images(rq.len, FieldOr(rq.width, DefaultSize),
                           FieldOr(rq.height, DefaultSize))
         ELSE Rejected
    [] route = "chat" ->
         IF verify_api_key(keys, rq.authorization)
         THEN route_chat(tbl, rq)
         ELSE Rejected

\* num_inference_steps or self.DEFAULT_STEPS
payload_steps(steps) ==
  IF steps = NoSteps \/ steps = 0 THEN DEFAULT_STEPS ELSE steps

\* A request arrives on a route; the route calls generate_with_retry unless
\* it refuses the request.
BeginVia(r, route, rq) ==
  LET c == RouteCall(route, rq, api_keys, model_configs)
  IN /\ req[r].pc = "idle"
     /\ c.accepted
     /\ Start(r, c.width, c.height)
     /\ prompt' = [prompt EXCEPT ![r] = [len |-> c.len,
                                         steps |-> payload_steps(c.steps)]]

\* POST /keys: create_api_key
CreateApiKey ==
  /\ next_key_id \in KeyIds
  /\ api_keys' = add_api_key(api_keys, next_key_id, TRUE)
  /\ next_key_id' = next_key_id + 1
  /\ UNCHANGED <<store_vars, clock_vars, pool_vars, req_vars, streak, cookies0,
                 lock, prompt, sched_hist, peak, session_vars, model_vars>>

\* DELETE /keys/{key_id}: 404 when no row has the id
DeleteApiKey(id) ==
  /\ api_keys[id].exists
  /\ api_keys' = delete_api_key(api_keys, id)
  /\ UNCHANGED <<store_vars, clock_vars, pool_vars, req_vars, streak, cookies0,
                 lock, prompt, sched_hist, peak, session_vars, model_vars,
                 next_key_id>>

\* The backend answers the post in flight.
Respond(r, kind) ==
  /\ req[r].pc = "http"
  /\ LET a == Answer(kind, req[r].attempt)
     IN req' = [req EXCEPT ![r].pc = IF a.act = "sleep" THEN "sleep" ELSE "closing",
                           ![r].result = a.result,
                           ![r].delay = a.delay]
  /\ hist' = [hist EXCEPT ![r] = Append(@, kind)]
  /\ UNCHANGED <<store_vars, clock_vars, pool_vars, logs, marks, calls, streak,
                 cookies0, key_vars, session_vars, model_vars, peak, lock, prompt, sched_hist>>

\* asyncio.sleep returns: the next pass of the for loop, or its end.
Wake(r) ==
  /\ req[r].pc = "sleep"
  /\ IF req[r].attempt + 1 < MAX_RETRIES
     THEN /\ req' = [req EXCEPT ![r].pc = "http", ![r].attempt = @ + 1,
                                ![r].delay = 0]
          /\ calls' = [calls EXCEPT ![r] = @ + 1]
     ELSE /\ req' = [req EXCEPT ![r].pc = "closing", ![r].attempt = @ + 1,
                                ![r].delay = 0,
                                ![r].result = Failure("max_retries")]
          /\ calls' = calls
  /\ UNCHANGED <<store_vars, clock_vars, pool_vars, logs, marks, hist, streak,
                 cookies0, key_vars, session_vars, model_vars, peak, lock, prompt, sched_hist>>

\* session.close() returns: _do_generate returns to generate, which records
\* the outcome and writes the log; generate_with_retry returns on success
\* and otherwise goes on to its next iteration.
Finish(r) ==
  /\ req[r].pc = "closing"
  /\ LET res == req[r].result
         m == mark_cookie_used(Pool, cookies, now, today, req[r].cookie_id, res.success)
         out == RetryLoop(req[r].i + 1, last_error_after(req[r].last_error, res.error),
                          req[r].width, req[r].height, m.pool, m.tbl, now, today)
         sels == SelsOf(req[r].i + 1, out, req[r].width, req[r].height)
     IN /\ cookies' = m.tbl
        /\ marks' = [marks EXCEPT
                       ![r] = Append(@, <<req[r].cookie_id, res.success, today>>)]
        /\ logs' = [logs EXCEPT ![r] = Append(@, LogRow(req[r].cookie_id, res))]
        /\ IF res.success
           THEN /\ req' = [req EXCEPT ![r].pc = "done"]
                /\ SetPool(m.pool)
                /\ calls' = calls
                /\ streak' = <<>>
                /\ sel' = sel
                /\ picks' = PicksAfter(picks, 0, m.tbl, today)
                /\ writes' = writes \cup MarkWrites(lock, r)
                /\ lock' = lock
           ELSE /\ req' = [req EXCEPT ![r].pc = out.pc, ![r].i = out.i,
                             ![r].attempt = 0, ![r].cookie_id = out.cookie_id,
                             ![r].result = out.result,
                             ![r].last_error = out.last_error]
                /\ SetPool(out.pool)
                /\ calls' = [calls EXCEPT ![r] = IF out.pc = "http" THEN @ + 1 ELSE @]
                /\ streak' = StreakAfter(<<>>, m.pool.cache, out, m.tbl, today)
                /\ sel' = [sel EXCEPT ![r] = @ \o sels]
                /\ picks' = PicksAfter(picks, out.cookie_id, m.tbl, today)
                /\ writes' = writes \cup MarkWrites(lock, r)
                                \cup SelectWrites(Len(sels), m.pool, now,
                                                  acquire(lock, r), r)
                /\ lock' = IF Len(sels) > 0 THEN release(acquire(lock, r)) ELSE lock
  /\ hist' = [hist EXCEPT ![r] = IF req'[r].pc = "http" THEN <<>> ELSE @]
  /\ UNCHANGED <<next_id, clock_vars, cookies0, key_vars,
                 session_vars, model_vars, peak, prompt>>

\* The same return of _do_generate when add_generation_log raises (a
\* sqlite3 error on the INSERT): mark_cookie_used has committed, the insert
\* is rolled back, and the exception, which neither generate nor
\* generate_with_retry catches, leaves the request (pc "raised").
FinishLogFails(r) ==
  /\ req[r].pc = "closing"
  /\ LET res == req[r].result
         m == mark_cookie_used(Pool, cookies, now, today, req[r].cookie_id, res.success)
     IN /\ cookies' = m.tbl
        /\ marks' = [marks EXCEPT
                       ![r] = Append(@, <<req[r].cookie_id, res.success, today>>)]
        /\ SetPool(m.pool)
        /\ picks' = PicksAfter(picks, 0, m.tbl, today)
        /\ writes' = writes \cup MarkWrites(lock, r)
  /\ req' = [req EXCEPT ![r].pc = "raised"]
  /\ streak' = <<>>
  /\ UNCHANGED <<next_id, clock_vars, cookies0, key_vars,
                 session_vars, model_vars, peak, logs, calls, hist, lock, prompt,
                 sel>>

\* POST /cookies: CookiePool.add_cookie
AddCookie ==
  /\ next_id <= MaxCookies
  /\ cookies' = [cookies EXCEPT ![next_id] = NewRow(TRUE)]
  /\ next_id' = next_id + 1
  /\ streak' = <<>>
  /\ picks' = PicksAfter(picks, 0, cookies', today)
  /\ UNCHANGED <<clock_vars, pool_vars, req_vars, cookies0, key_vars,
                 session_vars, model_vars, peak, lock, prompt, sel,
                 writes>>

\* PUT /cookies/{id} with is_active: CookiePool.update_cookie
UpdateCookie(id, is_active) ==
  /\ cookies[id].exists
  /\ cookies[id].is_active # is_active
  /\ cookies' = [cookies EXCEPT ![id].is_active = is_active]
  /\ streak' = <<>>
  /\ picks' = PicksAfter(picks, 0, cookies', today)
  /\ UNCHANGED <<next_id, clock_vars, pool_vars, req_vars, cookies0, key_vars,
                 session_vars, model_vars, peak, lock,
                 prompt, sel, writes>>

\* DELETE /cookies/{id}: CookiePool.delete_cookie
DeleteCookie(id) ==
  /\ cookies[id].exists
  /\ cookies' = [cookies EXCEPT ![id] = NoRow]
  /\ streak' = <<>>
  /\ picks' = PicksAfter(picks, 0, cookies', today)
  /\ UNCHANGED <<next_id, clock_vars, pool_vars, req_vars, cookies0, key_vars,
                 session_vars, model_vars, peak, lock,
                 prompt, sel, writes>>

\* GET /cookies/stats/overview: get_cookie_stats refreshes the cache if it
\* has expired and reads the store.
GetCookieStats ==
  /\ SetPool(refresh_cache(Pool, cookies, now, FALSE))
  /\ writes' = writes \cup StatsWrites(Pool, now)
  /\ UNCHANGED <<store_vars, clock_vars, req_vars, streak, cookies0, key_vars,
                 session_vars, model_vars, peak, lock,
                 prompt, sel, picks>>

\* The clock advances.
Tick ==
  /\ now < MaxNow
  /\ now' = now + TickSeconds
  /\ UNCHANGED <<today, store_vars, pool_vars, req_vars, streak, cookies0, key_vars,
                 session_vars, model_vars, peak,
                 lock, prompt, sched_hist>>

\* Midnight passes.
NextDay ==
  /\ today < MaxDay
  /\ today' = today + 1
  /\ picks' = PicksAfter(picks, 0, cookies, today')
  /\ UNCHANGED <<now, store_vars, pool_vars, req_vars, streak, cookies0, key_vars,
                 session_vars, model_vars, peak, lock,
                 prompt, sel, writes>>

(* --------------------------- specifications ---------------------------- *)
\* The store a process finds at start: n credentials, each active, used
\* u times so far, all of them today.
UsedRow(u) == [exists |-> TRUE, is_active |-> TRUE, use_count |-> u,
               error_count |-> 0, daily_used |-> u,
               daily_date |-> IF u = 0 THEN NULL ELSE 1]

InitStore ==
  \E n \in 0..MaxCookies :
    /\ next_id = n + 1
    /\ \E u \in [1..n -> 0..DAILY_QUOTA] :
         cookies = [id \in Ids |-> IF id <= n THEN UsedRow(u[id]) ELSE NoRow]

\* No session and no model configuration is stored at first.
NoSession == [exists |-> FALSE, expires |-> 0]
NoToken == [issued |-> NoTime, logged_out |-> FALSE, checked |-> "never"]

InitRest ==
  /\ cookies0 = cookies
  /\ today = 1
  /\ now = 0
  /\ cookies_cache = <<>>
  /\ current_index = 0
  /\ cache_time = NoTime
  /\ req = [r \in Reqs |-> IdleReq]
  /\ logs = [r \in Reqs |-> <<>>]
  /\ marks = [r \in Reqs |-> <<>>]
  /\ calls = [r \in Reqs |-> 0]
  /\ hist = [r \in Reqs |-> <<>>]
  /\ streak = <<>>
  /\ lock = NULL
  /\ prompt = [r \in Reqs |-> DefaultPrompt]
  /\ sel = [r \in Reqs |-> <<>>]
  /\ picks = [elig |-> Eligible(cookies, today), ids |-> <<>>]
  /\ writes = {}
  /\ peak = 0
  /\ sessions = [t \in Tokens |-> NoSession]
  /\ tokens = [t \in Tokens |-> NoToken]
  /\ model_configs = [m \in ModelIds |-> NoModel]
  /\ next_model_id = 1
  /\ api_keys = [k \in KeyIds |-> NoKey]
  /\ next_key_id = 1

Init == InitStore /\ InitRest

\* The scheduler and the store see of an attempt only result.success: the
\* concurrent specifications take one successful and one failed answer.
KindsMain == {"ok_b64", "auth_invalid"}
KindsOrch == {"ok_b64", "rate_limited", "auth_invalid", "bad_request"}
SizePairs == {<<100, 100>>,
              <<MIN_IMAGE_SIZE - 1, MIN_IMAGE_SIZE>>, <<MIN_IMAGE_SIZE, MIN_IMAGE_SIZE - 1>>,
              <<MAX_IMAGE_SIZE + 1, MAX_IMAGE_SIZE>>, <<MAX_IMAGE_SIZE, MAX_IMAGE_SIZE + 1>>,
              <<MIN_IMAGE_SIZE, MAX_IMAGE_SIZE>>, <<MAX_IMAGE_SIZE, MIN_IMAGE_SIZE>>}
OneReq == {1}

\* Concurrent requests against the scheduler and the store.
Next ==
  \/ \E r \in Reqs : Begin(r, DefaultSize, DefaultSize)
  \/ \E r \in Reqs, k \in KindsMain : Respond(r, k)
  \/ \E r \in Reqs : Finish(r)
  \/ Tick
  \/ NextDay

Spec == Init /\ [][Next]_vars

\* One request and the admin routes of app/routers/cookies.py.
NextAdmin ==
  \/ \E r \in OneReq : Begin(r, DefaultSize, DefaultSize)
  \/ \E r \in OneReq, k \in KindsMain : Respond(r, k)
  \/ \E r \in OneReq : Finish(r)
  \/ AddCookie
  \/ \E id \in Ids, b \in BOOLEAN : UpdateCookie(id, b)
  \/ \E id \in Ids : DeleteCookie(id)
  \/ GetCookieStats
  \/ Tick
  \/ NextDay

\* The credentials the process finds at start have been used equally.
InitAdmin ==
  /\ Init
  /\ \A i, j \in Ids :
       cookies[i].exists /\ cookies[j].exists
       => cookies[i].use_count = cookies[j].use_count

SpecAdmin == InitAdmin /\ [][NextAdmin]_vars

\* One request through the retry loops of _do_generate and
\* generate_with_retry, with sizes on both sides of the limits.
NextOrch ==
  \/ \E r \in OneReq, s \in SizePairs : Begin(r, s[1], s[2])
  \/ \E r \in OneReq, k \in KindsOrch : Respond(r, k)
  \/ \E r \in OneReq : Wake(r)
  \/ \E r \in OneReq : Finish(r)
  \/ Tick
  \/ NextDay

SpecOrch == Init /\ [][NextOrch]_vars

\* One request against every answer the backend can give.
NextBackend ==
  \/ \E r \in OneReq : Begin(r, DefaultSize, DefaultSize)
  \/ \E r \in OneReq, k \in Kinds : Respond(r, k)
  \/ \E r \in OneReq : Wake(r)
  \/ \E r \in OneReq : Finish(r)

SpecBackend == Init /\ [][NextBackend]_vars

\* One request through the two retry loops: the answers that end an attempt
\* in success (200) or in failure (timeout), and the two that make
\* _do_generate sleep and post again (429, transport error).
KindsRetry == {"ok_b64", "rate_limited", "transport", "timeout"}

NextRetry ==
  \/ \E r \in OneReq : Begin(r, DefaultSize, DefaultSize)
  \/ \E r \in OneReq, k \in KindsRetry : Respond(r, k)
  \/ \E r \in OneReq : Wake(r)
  \/ \E r \in OneReq : Finish(r)

\* The post ends with an answer or with the total timeout of the session
\* (REQUEST_TIMEOUT), asyncio.sleep returns and session.close() returns.
\* Finish(r) is enabled exactly when pc = "closing" and always leaves it,
\* so its weak fairness is stated on that condition.
RetryFairness ==
  \A r \in OneReq :
    /\ WF_vars(\E k \in KindsRetry : Respond(r, k))
    /\ WF_vars(Wake(r))
    /\ []<>(req[r].pc # "closing")

SpecRetryFair == Init /\ [][NextRetry]_vars /\ RetryFairness

\* One request against a store whose log insert may fail.
NextFault ==
  \/ \E r \in OneReq : Begin(r, DefaultSize, DefaultSize)
  \/ \E r \in OneReq, k \in KindsMain : Respond(r, k)
  \/ \E r \in OneReq : Finish(r)
  \/ \E r \in OneReq : FinishLogFails(r)
  \/ Tick
  \/ NextDay

SpecFault == Init /\ [][NextFault]_vars

\* One request against a store whose credentials have failed before: the
\* error counts start at 0 or one below the warning threshold.
InitStoreErrors ==
  \E n \in 1..MaxCookies :
    /\ next_id = n + 1
    /\ \E u \in [1..n -> 0..DAILY_QUOTA], e \in [1..n -> {0, ERROR_WARN - 1}] :
         cookies = [id \in Ids |->
                      IF id <= n
                      THEN [UsedRow(u[id]) EXCEPT !.error_count = e[id]]
                      ELSE NoRow]

InitErrors == InitStoreErrors /\ InitRest

NextErrors ==
  \/ \E r \in OneReq : Begin(r, DefaultSize, DefaultSize)
  \/ \E r \in OneReq, k \in KindsMain : Respond(r, k)
  \/ \E r \in OneReq : Finish(r)
  \/ Tick
  \/ NextDay

SpecErrors == InitErrors /\ [][NextErrors]_vars

(* --------------------------- admin sessions ---------------------------- *)
\* timedelta(hours=SESSION_EXPIRE_HOURS), in seconds
SessionSeconds == SESSION_EXPIRE_HOURS * 3600
SessionStep == SessionSeconds \div 2
MaxSessionNow == MaxSessionTicks * SessionStep

\* INSERT OR REPLACE INTO sessions (token, username, expires)
save_session(tbl, token, expires) ==
  [tbl EXCEPT ![token] = [exists |-> TRUE, expires |-> expires]]

\* DELETE FROM sessions WHERE token = ?
delete_session(tbl, token) == [tbl EXCEPT ![token] = NoSession]

\* mutant of session_expired: the expiry time is not looked at
session_expired_never(t, expires) == t < 0

\* datetime.now() > expires
session_expired(t, expires) == t > expires

\* verify_session: the answer, and the table it leaves
verify_session(tbl, t, token) ==
  IF ~tbl[token].exists
  THEN [ok |-> FALSE, sessions |-> tbl]
  ELSE IF session_expired(t, tbl[token].expires)
       THEN [ok |-> FALSE, sessions |-> delete_session(tbl, token)]
       ELSE [ok |-> TRUE, sessions |-> tbl]

\* secrets.token_urlsafe(32): a token no login has returned before
FreshToken == CHOOSE t \in Tokens :
                /\ tokens[t].issued = NoTime
                /\ \A u \in Tokens : tokens[u].issued = NoTime => t <= u

\* POST /api/auth/login: with the admin's name and password a session is
\* stored and its token set as cookie; otherwise 401 and nothing is stored.
Login(good) ==
  /\ \E t \in Tokens : tokens[t].issued = NoTime
  /\ IF good
     THEN /\ sessions' = save_session(sessions, FreshToken, now + SessionSeconds)
          /\ tokens' = [tokens EXCEPT ![FreshToken] =
                          [issued |-> now, logged_out |-> FALSE, checked |-> "never"]]
     ELSE UNCHANGED session_vars
  /\ UNCHANGED <<store_vars, clock_vars, pool_vars, req_vars, streak, cookies0, key_vars,
                 lock, prompt, sched_hist, peak, model_vars>>

\* POST /api/auth/logout with the cookie of an issued token
Logout(token) ==
  /\ tokens[token].issued # NoTime
  /\ sessions' = delete_session(sessions, token)
  /\ tokens' = [tokens EXCEPT ![token].logged_out = TRUE]
  /\ UNCHANGED <<store_vars, clock_vars, pool_vars, req_vars, streak, cookies0, key_vars,
                 lock, prompt, sched_hist, peak, model_vars>>

\* GET /api/auth/status, or any admin route through require_admin, with
\* the cookie `token`
CheckAuth(token) ==
  /\ LET v == verify_session(sessions, now, token)
     IN /\ sessions' = v.sessions
        /\ tokens' = [tokens EXCEPT ![token].checked =
                        IF v.ok THEN "accepted" ELSE "rejected"]
  /\ UNCHANGED <<store_vars, clock_vars, pool_vars, req_vars, streak, cookies0, key_vars,
                 lock, prompt, sched_hist, peak, model_vars>>

\* Half the lifetime of a session passes.
SessionTick ==
  /\ now < MaxSessionNow
  /\ now' = now + SessionStep
  /\ UNCHANGED <<today, store_vars, pool_vars, req_vars, streak, cookies0, key_vars,
                 lock, prompt, sched_hist, peak, session_vars, model_vars>>

NextAuth ==
  \/ \E good \in BOOLEAN : Login(good)
  \/ \E token \in Tokens : Logout(token)
  \/ \E token \in Tokens : CheckAuth(token)
  \/ SessionTick

SpecAuth == Init /\ [][NextAuth]_vars

(* ------------------------- model configurations ------------------------ *)
\* The configurations the admin sends: sizes at the limits the routes
\* accept and one below them, step counts on both sides of the clamp of
\* the chat route (the routes do not check steps).
ModelShapes == {<<DefaultSize, DefaultSize, DEFAULT_STEPS>>,
                <<MIN_IMAGE_SIZE, MAX_IMAGE_SIZE, 0>>,
                <<MAX_IMAGE_SIZE, MIN_IMAGE_SIZE, MAX_STEPS + 1>>,
                <<MIN_IMAGE_SIZE - 1, DefaultSize, DEFAULT_STEPS>>}
ModelInputs ==
  {ModelInput(name, d, shape) : name \in ModelNames, d \in BOOLEAN,
                                shape \in ModelShapes}

\* The size check of create_model and update_model (400 otherwise)
SizeAccepted(model) ==
  /\ ~(model.width < MIN_IMAGE_SIZE \/ model.width > MAX_IMAGE_SIZE)
  /\ ~(model.height < MIN_IMAGE_SIZE \/ model.height > MAX_IMAGE_SIZE)

\* POST /models: create_model
AddModelConfig(model) ==
  /\ next_model_id \in ModelIds
  /\ ~get_model_config_by_name(model_configs, model.name).exists
  /\ SizeAccepted(model)
  /\ model_configs' = add_model_config(model_configs, next_model_id, model)
  /\ next_model_id' = next_model_id + 1
  /\ UNCHANGED <<store_vars, clock_vars, pool_vars, req_vars, streak, cookies0,
                 key_vars, lock, prompt, sched_hist, peak, session_vars>>

\* PUT /models/{model_id}: update_model
UpdateModelConfig(id, model) ==
  /\ model_configs[id].exists
  /\ ~NameTaken(model_configs, model.name, id)
  /\ SizeAccepted(model)
  /\ model_configs' = update_model_config(model_configs, id, model)
  /\ UNCHANGED <<store_vars, clock_vars, pool_vars, req_vars, streak, cookies0,
                 key_vars, lock, prompt, sched_hist, peak, session_vars,
                 next_model_id>>

\* DELETE /models/{model_id}: delete_model
DeleteModelConfig(id) ==
  /\ model_configs[id].exists
  /\ model_configs' = delete_model_config(model_configs, id)
  /\ UNCHANGED <<store_vars, clock_vars, pool_vars, req_vars, streak, cookies0,
                 key_vars, lock, prompt, sched_hist, peak, session_vars,
                 next_model_id>>

NextModels ==
  \/ \E model \in ModelInputs : AddModelConfig(model)
  \/ \E id \in ModelIds, model \in ModelInputs : UpdateModelConfig(id, model)
  \/ \E id \in ModelIds : DeleteModelConfig(id)

SpecModels == Init /\ [][NextModels]_vars

(* ------------------------------ the routes ----------------------------- *)
\* One request arriving on any of the three routes that generate, while
\* the admin stores and deletes API keys and model configurations.
PromptLens == {0, 1, MAX_PROMPT_LENGTH, MAX_PROMPT_LENGTH + 1}
StepInputs == {NoSteps, 0, MIN_STEPS, MAX_STEPS, MAX_STEPS + 1}
SizeInputs == {<<NoSize, NoSize>>, <<0, MAX_IMAGE_SIZE + 1>>}
\* The configurations stored here: one that is not the default and one
\* that is, with step counts the chat route has to clamp from both sides.
RouteModelNames == {1, 2}
RouteModelInputs ==
  {ModelInput(1, FALSE, <<MIN_IMAGE_SIZE, MAX_IMAGE_SIZE, 0>>),
   ModelInput(2, TRUE, <<MAX_IMAGE_SIZE, MIN_IMAGE_SIZE, MAX_STEPS + 1>>)}
Authorizations == {NoHeader} \cup KeyIds
Requests ==
  {Request(a, model, len, steps, size[1], size[2]) :
     a \in Authorizations, model \in RouteModelNames, len \in PromptLens,
     steps \in StepInputs, size \in SizeInputs}

NextRoutes ==
  \/ \E r \in OneReq, route \in Routes, rq \in Requests : BeginVia(r, route, rq)
  \/ \E r \in OneReq, k \in KindsMain : Respond(r, k)
  \/ \E r \in OneReq : Finish(r)
  \/ CreateApiKey
  \/ \E id \in KeyIds : DeleteApiKey(id)
  \/ \E model \in RouteModelInputs : AddModelConfig(model)
  \/ \E id \in ModelIds : DeleteModelConfig(id)

\* The process starts with one credential in the store.
InitRoutes == Init /\ next_id = 2

SpecRoutes == InitRoutes /\ [][NextRoutes]_vars

(* ------------------------------- claims -------------------------------- *)
\* A get_next_cookie call returned a credential to request r in this step.
Selected(r) == req[r].pc \in {"idle", "closing"} /\ req'[r].pc = "http"

InRange(x) == MIN_IMAGE_SIZE <= x /\ x <= MAX_IMAGE_SIZE
SizeErrors == {"size_too_small", "size_too_large"}
InFlight(r) == req[r].pc \in {"http", "sleep", "closing"}

\* C1: whenever get_next_cookie returns a credential, the store's usage of
\* that credential for the current day (its daily_used if its daily_date is
\* the current date, 0 otherwise) at that moment is below DAILY_QUOTA.
C1_QuotaRespected ==
  [][\A r \in Reqs :
       Selected(r) =>
         get_cookie_daily_usage(cookies', today', req'[r].cookie_id) < DAILY_QUOTA]_vars

\* Two selections have been made and nothing recorded: the first returned
\* the head of the cache, the second probed the credential at quota behind
\* it, passed over it, wrapped around and returned the head again.
C1_Witness ==
  /\ Len(cookies_cache) = 2
  /\ current_index = 1
  /\ get_cookie_daily_usage(cookies, today, cookies_cache[2].id) >= DAILY_QUOTA
  /\ \A r \in Reqs :
       /\ req[r].pc = "http" /\ req[r].i = 0 /\ marks[r] = <<>>
       /\ req[r].cookie_id = cookies_cache[1].id

\* C2 (as claimed): with generation requests as the only writers, no
\* credential's daily_used of the current day exceeds DAILY_QUOTA.
C2_NeverAboveQuota ==
  \A id \in Ids : get_cookie_daily_usage(cookies, today, id) <= DAILY_QUOTA

\* C3: get_next_cookie calls made one after the other with every cached
\* credential under quota and no change of the store or of the cache order
\* in between return pairwise distinct credentials within any window of k
\* calls, k the pool size.
C3_RoundRobin ==
  \A a, b \in 1..Len(streak) :
    (a < b /\ b - a < Len(cookies_cache)) => streak[a] # streak[b]

\* k = pool size >= 2 consecutive calls have returned.
C3_Witness == Len(cookies_cache) >= 2 /\ Len(streak) = Len(cookies_cache)

\* the mark_cookie_used(id, True) calls made so far / made today
SuccessMarks(id) ==
  {<<r, k>> \in Reqs \X (1..max_cookie_retries) :
     k <= Len(marks[r]) /\ marks[r][k][1] = id /\ marks[r][k][2]}
SuccessMarksToday(id) ==
  {m \in SuccessMarks(id) : marks[m[1]][m[2]][3] = today}

\* C4: after N mark_cookie_used(id, True) calls by concurrent requests, in
\* any interleaving, use_count is its starting value plus N, the usage of
\* the current day is its value at the start of the day plus the calls made
\* today, and get_cookie_remaining_quota is DAILY_QUOTA minus that, floored
\* at 0.
C4_ExactCount ==
  \A id \in Ids :
    cookies[id].exists =>
      LET used == get_cookie_daily_usage(cookies0, today, id)
                    + Cardinality(SuccessMarksToday(id))
      IN /\ cookies[id].use_count
              = cookies0[id].use_count + Cardinality(SuccessMarks(id))
         /\ get_cookie_daily_usage(cookies, today, id) = used
         /\ get_cookie_remaining_quota(cookies, today, id)
              = IF used >= DAILY_QUOTA THEN 0 ELSE DAILY_QUOTA - used

\* Two requests have each recorded a success on the same credential today,
\* which had been used before.
C4_Witness ==
  \E id \in Ids :
    /\ Cardinality({m[1] : m \in SuccessMarksToday(id)}) >= 2
    /\ get_cookie_daily_usage(cookies0, today, id) > 0

\* C5 (as claimed): a credential whose stored is_active is false at the
\* moment of the selection is not returned by get_next_cookie.
C5_InactiveNeverSelected ==
  [][\A r \in Reqs :
       Selected(r) =>
         ~(cookies'[req'[r].cookie_id].exists
           /\ ~cookies'[req'[r].cookie_id].is_active)]_vars

\* C6: a request with a valid size that obtains no credential returns the
\* pool-exhaustion error without an HTTP post, a counter change, an outcome
\* record or a log row.
C6_NoCredentialNoEffect ==
  [][\A r \in Reqs :
       (/\ req[r].pc = "idle" /\ req'[r].pc = "done"
        /\ InRange(req'[r].width) /\ InRange(req'[r].height))
       => /\ req'[r].result = AllFailed("no_cookie")
          /\ calls'[r] = 0
          /\ cookies' = cookies
          /\ logs' = logs
          /\ marks' = marks]_vars

\* A request ended with the pool-exhaustion error while a credential at
\* quota was in the store.
C6_Witness ==
  \E r \in Reqs :
    /\ req[r].pc = "done" /\ req[r].result = AllFailed("no_cookie")
    /\ logs[r] = <<>> /\ calls[r] = 0
    /\ \E id \in Ids : get_cookie_daily_usage(cookies, today, id) >= DAILY_QUOTA

\* C7: a request with width or height outside [MIN_IMAGE_SIZE,
\* MAX_IMAGE_SIZE] ends with a size error and leaves the cursor, the cache,
\* the counters and the log as they were; a request with both inside the
\* range, limits included, does not end with a size error.
C7_SizeValidation ==
  [][\A r \in Reqs :
       (req[r].pc = "idle" /\ req'[r].pc # "idle") =>
         IF InRange(req'[r].width) /\ InRange(req'[r].height)
         THEN req'[r].result.error \notin SizeErrors
         ELSE /\ req'[r].pc = "done"
              /\ ~req'[r].result.success
              /\ req'[r].result.error \in SizeErrors
              /\ calls'[r] = 0
              /\ UNCHANGED <<pool_vars, cookies, logs, marks>>]_vars

\* A 100x100 request was rejected.
C7_Witness ==
  \E r \in Reqs :
    /\ req[r].pc = "done"
    /\ req[r].width = 100 /\ req[r].height = 100
    /\ req[r].result = AllFailed("size_too_small")

RateLimitedTwiceThenOk == <<"rate_limited", "rate_limited", "ok_b64">>

\* C8: a 429 is followed by a sleep and a retry on the same credential with
\* nothing recorded or logged, and a _do_generate call answered 429, 429,
\* 200 ends the request in success with one success record, no failure
\* record and one log row of status success.
C8_RateLimitedThenSuccess ==
  [][\A r \in Reqs :
       /\ (req[r].pc = "http" /\ hist'[r] = Append(hist[r], "rate_limited"))
          => /\ req'[r].pc = "sleep"
             /\ req'[r].cookie_id = req[r].cookie_id
             /\ UNCHANGED <<cookies, logs, marks>>
       /\ (req[r].pc = "sleep" /\ req'[r].pc # "sleep")
          => /\ req'[r].cookie_id = req[r].cookie_id
             /\ UNCHANGED <<cookies, logs, marks>>
       /\ (req[r].pc = "closing" /\ req'[r].pc # "closing"
           /\ hist[r] = RateLimitedTwiceThenOk)
          => LET id == req[r].cookie_id
             IN /\ req'[r].pc = "done"
                /\ req'[r].result.success
                /\ marks'[r] = Append(marks[r], <<id, TRUE, today>>)
                /\ logs'[r] = Append(logs[r], [cookie_id |-> id,
                                 status |-> "success", error_message |-> "none"])
                /\ cookies'[id].use_count = cookies[id].use_count + 1
                /\ cookies'[id].error_count = cookies[id].error_count]_vars

\* A request whose only attempt was answered 429, 429, 200 has returned.
C8_Witness ==
  \E r \in Reqs :
    /\ req[r].pc = "done" /\ req[r].result.success
    /\ hist[r] = RateLimitedTwiceThenOk
    /\ calls[r] = 3
    /\ marks[r] = <<<<req[r].cookie_id, TRUE, today>>>>
    /\ Len(logs[r]) = 1

\* the credentials the backend answered 401 for in request r
AuthInvalidOf(r) ==
  {logs[r][k].cookie_id :
     k \in {j \in 1..Len(logs[r]) : logs[r][j].error_message = "auth_invalid"}}

\* C9 (as claimed): a credential the backend answered 401 for is not selected
\* again by the same request, and with two credentials that both answer 401
\* the request ends with two failure records.
C9_AuthInvalidNotReselected ==
  \A r \in Reqs :
    /\ InFlight(r) => req[r].cookie_id \notin AuthInvalidOf(r)
    /\ (/\ req[r].pc = "done"
        /\ Cardinality({id \in Ids : cookies[id].exists /\ cookies[id].is_active}) = 2
        /\ logs[r] # <<>>
        /\ \A k \in 1..Len(logs[r]) : logs[r][k].error_message = "auth_invalid")
       => /\ Len(marks[r]) = 2
          /\ req[r].result = AllFailed("auth_invalid")

\* C10 (as claimed): once the backend has answered 400, the request has
\* returned that error: it makes no further selection and no further post.
C10_BadRequestEndsRequest ==
  \A r \in Reqs :
    (\E k \in 1..Len(logs[r]) : logs[r][k].error_message = "bad_request")
    => /\ req[r].pc = "done"
       /\ req[r].result.error = "bad_request"

\* C11 (as claimed): once a get_next_cookie call has returned none to a
\* request, the request makes no further get_next_cookie call.
C11_NoneEndsRequest ==
  \A r \in Reqs :
    \A k \in 1..Len(sel[r]) : sel[r][k] = 0 => k = Len(sel[r])

\* the credentials the get_next_cookie calls of request r returned
UsedBy(r) == SelectSeq(sel[r], LAMBDA x : x # 0)
\* the mark_cookie_used(id, success) calls made by any request
MarksOf(id, success) ==
  {<<r, k>> \in Reqs \X (1..max_cookie_retries) :
     k <= Len(marks[r]) /\ marks[r][k][1] = id /\ marks[r][k][2] = success}

\* C12: at any moment a request has made as many mark_cookie_used calls as
\* it has written log rows, one of each per credential selected (the attempt
\* in flight excepted); the k-th call and the k-th row carry the k-th
\* credential selected and the same outcome, and the counters of a
\* credential have moved by one per call.
C12_OneRecordPerAttempt ==
  /\ \A r \in Reqs :
       /\ Len(marks[r]) = Len(logs[r])
       /\ Len(UsedBy(r)) = Len(marks[r]) + (IF InFlight(r) THEN 1 ELSE 0)
       /\ \A k \in 1..Len(marks[r]) :
            /\ marks[r][k][1] = UsedBy(r)[k]
            /\ logs[r][k].cookie_id = UsedBy(r)[k]
            /\ marks[r][k][2] = (logs[r][k].status = "success")
       /\ (req[r].pc = "done" /\ req[r].result.success)
            => marks[r][Len(marks[r])][2]
  /\ \A id \in Ids :
       cookies[id].exists =>
         /\ cookies[id].use_count
              = cookies0[id].use_count + Cardinality(MarksOf(id, TRUE))
         /\ cookies[id].error_count
              = cookies0[id].error_count + Cardinality(MarksOf(id, FALSE))

\* A request has returned a success after two failed attempts.
C12_Witness ==
  \E r \in Reqs :
    /\ req[r].pc = "done" /\ req[r].result.success
    /\ Len(logs[r]) = 3 /\ Len(UsedBy(r)) = 3
    /\ ~marks[r][1][2] /\ ~marks[r][2][2] /\ marks[r][3][2]

\* C14: a request that ran out of iterations of generate_with_retry returns
\* the error of its last iteration: the size error, the pool-exhaustion
\* error when the last get_next_cookie call returned none, the error of the
\* last backend attempt otherwise.
C14_LastErrorSurfaced ==
  \A r \in Reqs :
    (req[r].pc = "done" /\ req[r].result.all_failed) =>
      req[r].result.error =
        IF ~validate_size(req[r].width, req[r].height).valid
        THEN validate_size(req[r].width, req[r].height).error
        ELSE IF sel[r][Len(sel[r])] = 0
             THEN "no_cookie"
             ELSE logs[r][Len(logs[r])].error_message

\* A request has failed after three attempts of which the first and the
\* last ended with different errors.
C14_Witness ==
  \E r \in Reqs :
    /\ req[r].pc = "done" /\ req[r].result.all_failed
    /\ Len(logs[r]) = max_cookie_retries
    /\ logs[r][1].error_message # logs[r][max_cookie_retries].error_message

\* success with an image and no error, or failure with an error and no image
WellFormed(result) ==
  \/ /\ result.success
     /\ result.image_url \/ result.image_base64
     /\ result.error = "none"
  \/ /\ ~result.success
     /\ result.error # "none"
     /\ ~result.image_url /\ ~result.image_base64

\* C13: the result _do_generate hands to generate and the result
\* generate_with_retry returns are each either a success with an image
\* reference and no error, or a failure with an error and no image.
C13_ResultShape ==
  \A r \in Reqs :
    req[r].pc \in {"closing", "done"} => WellFormed(req[r].result)

\* A request was answered 200 without an image, then 200 with both a
\* b64_json and a url, and has returned a success that carries both.
C13_Witness ==
  \E r \in Reqs :
    /\ req[r].pc = "done"
    /\ Len(logs[r]) = 2 /\ logs[r][1].error_message = "no_image"
    /\ req[r].result.success
    /\ req[r].result.image_url /\ req[r].result.image_base64

\* C15: a request makes at most max_cookie_retries get_next_cookie calls and
\* at most max_cookie_retries * MAX_RETRIES posts, and once begun it returns,
\* whatever the backend answers.
C15_Terminates ==
  /\ [](\A r \in Reqs :
          /\ Len(sel[r]) <= max_cookie_retries
          /\ calls[r] <= max_cookie_retries * MAX_RETRIES)
  /\ \A r \in Reqs : (req[r].pc # "idle") ~> (req[r].pc = "done")

\* A request has returned after max_cookie_retries * MAX_RETRIES posts.
C15_Witness ==
  \E r \in Reqs :
    /\ req[r].pc = "done"
    /\ Len(sel[r]) = max_cookie_retries
    /\ calls[r] = max_cookie_retries * MAX_RETRIES

\* C16 (as claimed): a request whose log insert failed (it has recorded more
\* outcomes than it has log rows) still hands a result to its caller or goes
\* on to its next attempt; it does not end with the exception.
C16_LogFailureHarmless ==
  \A r \in Reqs :
    Len(marks[r]) > Len(logs[r]) => req[r].pc # "raised"

\* C17 (as claimed): a request whose prompt is empty or longer than
\* MAX_PROMPT_LENGTH, or whose step count is outside
\* [MIN_STEPS, MAX_STEPS], makes no get_next_cookie call, whatever the
\* route it came in by.
C17_PromptValidated ==
  \A r \in Reqs :
    (\/ prompt[r].len < 1 \/ prompt[r].len > MAX_PROMPT_LENGTH
     \/ prompt[r].steps < MIN_STEPS \/ prompt[r].steps > MAX_STEPS)
    => sel[r] = <<>>

\* C18 (as claimed): every write of the cache, the cursor or the cache time
\* was made by a task holding the lock.
C18_WritesUnderLock ==
  \A w \in writes : w.locked

\* C19: while a request is inside _do_generate (post in flight, backoff
\* sleep or session close) the lock is free, so that the get_next_cookie of
\* another request does not wait for it.
C19_LockFreeDuringBackend ==
  \A r \in Reqs : InFlight(r) => lock = NULL

\* Both requests have a post in flight: the second selected its credential
\* while the first was waiting for the backend.
C19_Witness ==
  /\ \A r \in Reqs : req[r].pc = "http" /\ Len(sel[r]) = 1
  /\ lock = NULL
  /\ [by |-> "get_next_cookie", locked |-> TRUE] \in writes

\* C20 (as claimed): N consecutive get_next_cookie returns made while the
\* same N >= 2 credentials were active and under quota are pairwise
\* distinct: each of the N credentials was returned once.
C20_NoStarvation ==
  (Cardinality(picks.elig) >= 2 /\ Len(picks.ids) = Cardinality(picks.elig))
  => \A a, b \in 1..Len(picks.ids) : a # b => picks.ids[a] # picks.ids[b]

\* C21: a get_next_cookie call that follows another one with no change of
\* the store or of the cache order in between, on a cache of at least two
\* credentials all under quota, runs with the lock taken and given back,
\* starts at the cursor the earlier call left, returns the credential there,
\* which is not the one the earlier call returned, and moves the cursor by
\* one.
C21_ConcurrentSelectionsDiffer ==
  [][\A r \in Reqs :
       (/\ Selected(r)
        /\ streak # <<>>
        /\ streak' = Append(streak, req'[r].cookie_id)
        /\ Len(cookies_cache') >= 2)
       => /\ lock = NULL /\ lock' = NULL
          /\ req'[r].cookie_id = cookies_cache'[current_index + 1].id
          /\ req'[r].cookie_id # streak[Len(streak)]
          /\ current_index' = (current_index + 1) % Len(cookies_cache')]_vars

\* Two requests selected one after the other with nothing recorded in
\* between and hold different credentials.
C21_Witness ==
  /\ \A r \in Reqs : req[r].pc = "http" /\ marks[r] = <<>> /\ Len(sel[r]) = 1
  /\ Len(streak) = 2
  /\ \A r1, r2 \in Reqs : r1 # r2 => req[r1].cookie_id # req[r2].cookie_id

\* the k-th credential of the cache q in cyclic order from the cursor
CyclicAt(q, k) == q.cache[((q.index + k) % Len(q.cache)) + 1]

\* C22: on the cache as _refresh_cache leaves it, of length N, a
\* get_next_cookie call returns the first credential in cyclic order from
\* the cursor whose usage of the day in the store is below DAILY_QUOTA,
\* after k0 + 1 <= N probes, and leaves the cursor k0 + 1 further (mod N);
\* it returns none exactly when there is no such credential (empty cache
\* included), after N probes that bring the cursor back where it was.
C22_ProbeSemantics ==
  LET q == refresh_cache(Pool, cookies, now, FALSE)
      N == Len(q.cache)
      s == get_next_cookie(Pool, cookies, now, today)
      hits == {k \in 0..(N - 1) :
                 get_cookie_daily_usage(cookies, today, CyclicAt(q, k).id) < DAILY_QUOTA}
  IN IF hits = {}
     THEN s.cookie = NoCookie /\ s.pool = q
     ELSE LET k0 == CHOOSE k \in hits : \A j \in hits : k <= j
          IN /\ s.cookie = CyclicAt(q, k0)
             /\ s.pool = [q EXCEPT !.index = (q.index + k0 + 1) % N]

\* A request has probed a full cache of credentials at quota three times
\* and got none each time; the cursor is back at its place.
C22_Witness ==
  /\ Len(cookies_cache) = MaxCookies
  /\ current_index = 0
  /\ \A k \in 1..Len(cookies_cache) :
       get_cookie_daily_usage(cookies, today, cookies_cache[k].id) >= DAILY_QUOTA
  /\ \E r \in Reqs : req[r].pc = "done" /\ sel[r] = <<0, 0, 0>>

\* C23 (as claimed): a selection made while the cached list is empty reloads
\* the list from the store, so that it returns a credential whenever the
\* store holds an active credential under quota.
C23_EmptyCacheReloads ==
  [][\A r \in Reqs :
       (/\ req[r].pc = "idle" /\ req'[r].pc # "idle"
        /\ cookies_cache = <<>>
        /\ Eligible(cookies, today) # {})
       => req'[r].pc = "http"]_vars

\* C24: the cursor is 0 when the cached list is empty and a valid 0-based
\* position of the list otherwise.
C24_CursorInRange ==
  IF cookies_cache = <<>>
  THEN current_index = 0
  ELSE 0 <= current_index /\ current_index < Len(cookies_cache)

\* The first credential of two was selected, the other one was deleted, and
\* the refresh forced by the failure record found the cursor at the length
\* of the shrunk list and put it back to 0 before the next selection.
C24_Witness ==
  /\ cookies0[1].exists /\ cookies0[2].exists
  /\ cookies0[1].use_count <= cookies0[2].use_count
  /\ cookies[1].exists /\ ~cookies[2].exists
  /\ Len(cookies_cache) = 1 /\ current_index = 0
  /\ \E r \in Reqs : sel[r] = <<1, 1>> /\ Len(marks[r]) = 1

\* n answers of the same kind
Repeated(kind, n) == [k \in 1..n |-> kind]
\* request r has recorded one failure on credential id and gone on to the
\* next iteration of generate_with_retry
FailedOver(r, id) ==
  /\ marks'[r] = Append(marks[r], <<id, FALSE, today>>)
  /\ logs'[r] = Append(logs[r], [cookie_id |-> id, status |-> "failed",
                                  error_message |-> req[r].result.error])
  /\ cookies'[id].error_count = cookies[id].error_count + 1
  /\ cookies'[id].use_count = cookies[id].use_count
  /\ req'[r].i > req[r].i

\* C25: on a 429 _do_generate sleeps RETRY_DELAY times the number of the
\* pass (1, 2, 3) and then goes to the next pass on the same credential,
\* with no selection and nothing recorded; after MAX_RETRIES 429 answers
\* the attempt ends as a failure, recorded once, and generate_with_retry
\* moves on.
C25_RateLimitedBackoff ==
  [][\A r \in Reqs :
       /\ (req[r].pc = "http" /\ hist'[r] = Append(hist[r], "rate_limited"))
          => /\ req'[r].pc = "sleep"
             /\ req'[r].delay = RETRY_DELAY * (req[r].attempt + 1)
             /\ req'[r].attempt = req[r].attempt
             /\ req'[r].cookie_id = req[r].cookie_id
             /\ UNCHANGED <<sel, marks, logs, cookies, calls>>
       /\ (req[r].pc = "sleep" /\ req'[r].pc # "sleep")
          => /\ req'[r].attempt = req[r].attempt + 1
             /\ req'[r].cookie_id = req[r].cookie_id
             /\ UNCHANGED <<sel, marks, logs, cookies>>
             /\ IF req[r].attempt + 1 < MAX_RETRIES
                THEN req'[r].pc = "http" /\ calls'[r] = calls[r] + 1
                ELSE /\ req'[r].pc = "closing" /\ calls'[r] = calls[r]
                     /\ ~req'[r].result.success
       /\ (/\ req[r].pc = "closing" /\ req'[r].pc # "closing"
           /\ hist[r] = Repeated("rate_limited", MAX_RETRIES))
          => FailedOver(r, req[r].cookie_id)]_vars

\* A request is on its second credential attempt after a first one that
\* was answered 429 MAX_RETRIES times.
C25_Witness ==
  \E r \in Reqs :
    /\ req[r].pc = "http" /\ req[r].i = 1
    /\ calls[r] = MAX_RETRIES + 1
    /\ Len(logs[r]) = 1 /\ logs[r][1].error_message = "max_retries"
    /\ marks[r] = <<<<sel[r][1], FALSE, today>>>>

\* C26: a transport error on pass 1 or 2 makes _do_generate sleep and post
\* again on the same credential with nothing recorded; on pass MAX_RETRIES
\* it ends the attempt, which is recorded as one failure before
\* generate_with_retry moves on; a 200 after one or two transport errors
\* ends the request with one success record and no failure record.
C26_TransportRetried ==
  [][\A r \in Reqs :
       /\ (req[r].pc = "http" /\ hist'[r] = Append(hist[r], "transport"))
          => IF req[r].attempt < MAX_RETRIES - 1
             THEN /\ req'[r].pc = "sleep"
                  /\ req'[r].delay = RETRY_DELAY
                  /\ req'[r].cookie_id = req[r].cookie_id
                  /\ UNCHANGED <<sel, marks, logs, cookies, calls>>
             ELSE /\ req'[r].pc = "closing"
                  /\ req'[r].result = Failure("request_failed")
                  /\ Len(hist'[r]) = MAX_RETRIES
       /\ (/\ req[r].pc = "closing" /\ req'[r].pc # "closing"
           /\ hist[r] = Repeated("transport", MAX_RETRIES))
          => FailedOver(r, req[r].cookie_id)
       /\ (/\ req[r].pc = "closing" /\ req'[r].pc # "closing"
           /\ \E n \in 1..(MAX_RETRIES - 1) :
                hist[r] = Append(Repeated("transport", n), "ok_b64"))
          => /\ req'[r].pc = "done" /\ req'[r].result.success
             /\ marks'[r] = Append(marks[r], <<req[r].cookie_id, TRUE, today>>)
             /\ cookies'[req[r].cookie_id].error_count
                  = cookies[req[r].cookie_id].error_count]_vars

\* A request has succeeded on its first credential at the third post, after
\* two transport errors.
C26_Witness ==
  \E r \in Reqs :
    /\ req[r].pc = "done" /\ req[r].result.success
    /\ hist[r] = Append(Repeated("transport", MAX_RETRIES - 1), "ok_b64")
    /\ calls[r] = MAX_RETRIES
    /\ marks[r] = <<<<req[r].cookie_id, TRUE, today>>>>

\* C27 (as claimed): an attempt whose posts all ran into the request
\* timeout ends only after MAX_RETRIES posts.
C27_TimeoutRetried ==
  \A r \in Reqs :
    (/\ req[r].pc = "closing" /\ hist[r] # <<>>
     /\ \A k \in 1..Len(hist[r]) : hist[r][k] = "timeout")
    => Len(hist[r]) = MAX_RETRIES

\* C28: a status other than 200, 429, 401 and 400 ends _do_generate at once
\* with a failure; the failure is recorded once on the credential and
\* generate_with_retry moves on: a further post is made only after a new
\* get_next_cookie call.
C28_ServerErrorEndsAttempt ==
  [][\A r \in Reqs :
       /\ (req[r].pc = "http" /\ hist'[r] = Append(hist[r], "server_error"))
          => /\ req'[r].pc = "closing"
             /\ req'[r].result = Failure("api_error")
             /\ UNCHANGED <<sel, marks, logs, cookies, calls>>
       /\ (/\ req[r].pc = "closing" /\ req'[r].pc # "closing"
           /\ hist[r] # <<>> /\ hist[r][Len(hist[r])] = "server_error")
          => /\ FailedOver(r, req[r].cookie_id)
             /\ IF req'[r].pc = "http"
                THEN /\ calls'[r] = calls[r] + 1
                     /\ Len(sel'[r]) > Len(sel[r])
                     /\ sel'[r][Len(sel'[r])] = req'[r].cookie_id
                ELSE req'[r].pc = "done" /\ calls'[r] = calls[r]]_vars

\* A request is on its second credential attempt, the first having been
\* answered by a server error at its first post.
C28_Witness ==
  \E r \in Reqs :
    /\ req[r].pc = "http" /\ req[r].i = 1
    /\ calls[r] = 2
    /\ Len(logs[r]) = 1 /\ logs[r][1].error_message = "api_error"
    /\ marks[r] = <<<<sel[r][1], FALSE, today>>>>

\* C29: mark_cookie_used(id, success) changes one counter family of
\* credential id: on success use_count and the day's daily_used go up by 1
\* and error_count stays; on failure error_count goes up by 1, use_count
\* stays and daily_used changes only by the day-rollover reset; no other
\* row changes; the cache then equals the store's active list.
C29_MarkFrame ==
  [][\A r \in Reqs :
       (req[r].pc = "closing" /\ req'[r].pc # "closing")
       => LET id == req[r].cookie_id
              old == cookies[id]
              new == cookies'[id]
              used == get_cookie_daily_usage(cookies, today, id)
          IN /\ IF req[r].result.success
                THEN /\ new.use_count = old.use_count + 1
                     /\ new.daily_used = used + 1
                     /\ new.error_count = old.error_count
                ELSE /\ new.error_count = old.error_count + 1
                     /\ new.use_count = old.use_count
                     /\ new.daily_used = used
             /\ new.daily_date = today
             /\ new.exists = old.exists /\ new.is_active = old.is_active
             /\ \A j \in Ids \ {id} : cookies'[j] = cookies[j]
             /\ cookies_cache' = get_all_cookies(cookies')]_vars

\* A failure has just been recorded, on the day after the credential's
\* last use: its daily window is rolled, its use_count is the initial one.
C29_Witness ==
  \E r \in Reqs :
    /\ marks[r] # <<>>
    /\ LET last == marks[r][Len(marks[r])]
           id == last[1]
       IN /\ ~last[2] /\ last[3] = today /\ today > 1
          /\ cookies0[id].daily_used > 0
          /\ cookies[id].daily_date = today /\ cookies[id].daily_used = 0
          /\ cookies[id].use_count = cookies0[id].use_count
          /\ cookies[id].error_count = 1
          /\ cookies_cache = get_all_cookies(cookies)

\* SELECT * FROM cookies ORDER BY id DESC
RECURSIVE OrderByIdDesc(_)
OrderByIdDesc(S) ==
  IF S = {} THEN <<>>
  ELSE LET m == CHOOSE a \in S : \A b \in S : b <= a
       IN <<m>> \o OrderByIdDesc(S \ {m})

\* GET /api/cookies: every stored credential with its counters as stored
\* and the remaining quota of the day; the store is only read.
list_cookies(tbl, day) ==
  LET s == OrderByIdDesc({i \in Ids : tbl[i].exists})
  IN [k \in 1..Len(s) |->
        [id |-> s[k], is_active |-> tbl[s[k]].is_active,
         use_count |-> tbl[s[k]].use_count,
         error_count |-> tbl[s[k]].error_count,
         daily_used |-> tbl[s[k]].daily_used,
         daily_remaining |-> get_cookie_remaining_quota(tbl, day, s[k])]]

\* C30 (as claimed): the daily usage a credential listing reports is the
\* usage of the current day, never the count of a previous day.
C30_ListingReportsToday ==
  LET l == list_cookies(cookies, today)
  IN \A k \in 1..Len(l) :
       l[k].daily_used = get_cookie_daily_usage(cookies, today, l[k].id)

\* C31: get_cookie_remaining_quota(id) is DAILY_QUOTA minus the usage of
\* the current day, floored at 0: never negative, DAILY_QUOTA for a
\* credential whose daily_date is stale or absent or that is not stored,
\* and a value only (the call reads the store and writes nothing).
C31_RemainingQuota ==
  \A id \in 0..(MaxCookies + 1) :
    LET q == get_cookie_remaining_quota(cookies, today, id)
        current == id \in Ids /\ cookies[id].exists /\ cookies[id].daily_date = today
    IN /\ q \in 0..DAILY_QUOTA
       /\ ~current => q = DAILY_QUOTA
       /\ (current /\ cookies[id].daily_used <= DAILY_QUOTA)
            => q + cookies[id].daily_used = DAILY_QUOTA
       /\ (current /\ cookies[id].daily_used > DAILY_QUOTA) => q = 0

\* A credential has been used more often today than the quota allows: the
\* difference is negative and the remaining quota is 0.
C31_Witness ==
  \E id \in Ids :
    /\ cookies[id].exists /\ cookies[id].daily_date = today
    /\ cookies[id].daily_used > DAILY_QUOTA
    /\ get_cookie_remaining_quota(cookies, today, id) = 0

\* C32: _refresh_cache is idempotent: the same call made twice in a row on
\* an unchanged store leaves the scheduler as the first call left it; once
\* a call has loaded the list, no further call, forced or not, now or after
\* the cache has expired, changes the list or the cursor; and a call never
\* moves a cursor that is in the range of the list it leaves.
C32_RefreshIdempotent ==
  \A force \in BOOLEAN :
    LET q == refresh_cache(Pool, cookies, now, force)
    IN /\ refresh_cache(q, cookies, now, force) = q
       /\ (force \/ CacheExpired(Pool, now))
            => \A again \in BOOLEAN, t \in {now, now + TickSeconds} :
                 LET q2 == refresh_cache(q, cookies, t, again)
                 IN q2.cache = q.cache /\ q2.index = q.index
       /\ Pool.index < Len(q.cache) => q.index = Pool.index

\* The cache was loaded at this instant from a store that has changed
\* since the start, and the cursor stands inside a list of two.
C32_Witness ==
  /\ cache_time = now /\ cookies # cookies0
  /\ cookies_cache = get_all_cookies(cookies)
  /\ Len(cookies_cache) = 2 /\ current_index = 1
  /\ refresh_cache(Pool, cookies, now, TRUE).index = 1

\* C33: as long as a credential is stored, its use_count and its
\* error_count never decrease, whatever step is taken: selection, outcome
\* record, midnight, admin update, cache refresh.
C33_LifetimeCountersMonotone ==
  [][\A id \in Ids :
       (cookies[id].exists /\ cookies'[id].exists)
       => /\ cookies'[id].use_count >= cookies[id].use_count
          /\ cookies'[id].error_count >= cookies[id].error_count]_vars

\* A credential has failed and succeeded since the start, the success on
\* the day after its previous use, and has then been deactivated.
C33_Witness ==
  \E id \in Ids :
    /\ cookies[id].exists /\ ~cookies[id].is_active
    /\ cookies[id].error_count >= 1
    /\ cookies0[id].use_count >= 1
    /\ cookies[id].use_count > cookies0[id].use_count
    /\ cookies[id].daily_date = today /\ today > 1
    /\ cookies[id].daily_used < cookies[id].use_count

\* C34: the steps of the scheduling path (get_next_cookie,
\* mark_cookie_used, _refresh_cache, in a request or in the stats route)
\* leave the set of stored credentials, the next id and every active flag
\* as they are; recording an outcome on a deleted credential inserts
\* nothing.
C34_SchedulerKeepsCredentials ==
  [][(req' # req \/ writes' # writes \/ pool_vars' # pool_vars)
     => /\ next_id' = next_id
        /\ \A id \in Ids :
             /\ cookies'[id].exists = cookies[id].exists
             /\ cookies'[id].is_active = cookies[id].is_active
             /\ ~cookies[id].exists => cookies'[id] = NoRow]_vars

\* A request has recorded a success on a credential that was deleted while
\* the HTTP post was under way: the forced refresh emptied the cache and
\* the store holds no row for it.
C34_Witness ==
  \E r \in Reqs, id \in Ids :
    /\ now = 0 /\ cookies_cache = <<>>
    /\ marks[r] = <<<<id, TRUE, today>>>>
    /\ cookies0[id].exists /\ cookies[id] = NoRow

\* C36 (as claimed): the credential a get_next_cookie call returns is
\* stored at the moment it is returned.
C36_SelectedIsStored ==
  [][\A r \in Reqs :
       Selected(r) => cookies'[req'[r].cookie_id].exists]_vars

\* C35: when at most M requests have been in flight at once, no
\* credential's usage of the current day exceeds DAILY_QUOTA + M - 1, and
\* with M = 1 it never exceeds DAILY_QUOTA; the requests in flight on a
\* credential account for the overshoot still to come.
C35_OvershootBounded ==
  \A id \in Ids :
    LET used == get_cookie_daily_usage(cookies, today, id)
        flying == Cardinality({r \in Running(req) : req[r].cookie_id = id})
    IN /\ peak <= 1 => used <= DAILY_QUOTA
       /\ peak >= 1 => used + flying <= DAILY_QUOTA + peak - 1

\* Two requests were in flight at once on a credential one use below its
\* quota, and both succeeded: its usage is DAILY_QUOTA + 1.
C35_Witness ==
  \E id \in Ids :
    /\ peak = MaxReqs
    /\ get_cookie_daily_usage(cookies, today, id) = DAILY_QUOTA + MaxReqs - 1
    /\ \A r \in Reqs : req[r].pc = "done" /\ req[r].cookie_id = id

\* C37: recording a failure leaves the credential's active flag, its usage
\* of the day and its remaining quota as they were, whatever its
\* error_count, the warning threshold included; a credential that was
\* eligible stays eligible, and if it is the only eligible one the next
\* iteration of generate_with_retry selects it again.
C37_FailuresNeverDisable ==
  [][\A r \in Reqs :
       (/\ req[r].pc = "closing" /\ req'[r].pc # "closing"
        /\ ~req[r].result.success)
       => LET id == req[r].cookie_id
          IN /\ cookies'[id].is_active = cookies[id].is_active
             /\ get_cookie_daily_usage(cookies', today, id)
                  = get_cookie_daily_usage(cookies, today, id)
             /\ get_cookie_remaining_quota(cookies', today, id)
                  = get_cookie_remaining_quota(cookies, today, id)
             /\ id \in Eligible(cookies, today) => id \in Eligible(cookies', today)
             /\ (Eligible(cookies, today) = {id} /\ req[r].i + 1 < max_cookie_retries)
                  => req'[r].pc = "http" /\ req'[r].cookie_id = id]_vars

\* A credential has failed twice in this request with its error_count at
\* and above the warning threshold, and is selected a third time.
C37_Witness ==
  \E r \in Reqs :
    LET id == req[r].cookie_id
    IN /\ req[r].pc = "http" /\ req[r].i = 2
       /\ marks[r] = <<<<id, FALSE, today>>, <<id, FALSE, today>>>>
       /\ cookies[id].error_count = ERROR_WARN + 1
       /\ cookies[id].is_active
       /\ mark_cookie_used(Pool, cookies, now, today, id, FALSE).warned
       /\ get_cookie_remaining_quota(cookies, today, id) = DAILY_QUOTA

\* C38: the stored daily_used of a credential is never negative and never
\* above its use_count, before and after a rollover of its daily window.
C38_DailyWithinLifetime ==
  \A id \in Ids :
    cookies[id].exists
    => LET rolled == reset_daily_usage_if_needed(cookies, today, id)[id]
       IN /\ 0 <= cookies[id].daily_used
          /\ cookies[id].daily_used <= cookies[id].use_count
          /\ 0 <= rolled.daily_used /\ rolled.daily_used <= cookies[id].daily_used
          /\ rolled.use_count = cookies[id].use_count

\* A credential used on the first day has succeeded once on the second:
\* its daily_used is 1, below its use_count.
C38_Witness ==
  \E id \in Ids, r \in Reqs :
    /\ today = 2 /\ cookies[id].daily_date = today
    /\ cookies0[id].daily_used >= 1
    /\ marks[r] # <<>> /\ marks[r][Len(marks[r])] = <<id, TRUE, today>>
    /\ cookies[id].daily_used = 1
    /\ cookies[id].use_count = cookies0[id].use_count + 1

\* The token was issued by a login, no logout has been made with it, and
\* the clock is not past its expiry time.
InSessionWindow(token) ==
  /\ tokens[token].issued # NoTime
  /\ ~tokens[token].logged_out
  /\ now <= tokens[token].issued + SessionSeconds

\* C39: verify_session accepts a token exactly between the login that
\* issued it and the earlier of its logout and its expiry 7 days later;
\* after a logout no record is stored for it; verifying an expired token
\* deletes its record and no other; and a token once rejected after its
\* login is rejected in every later state.
C39_SessionWindow ==
  [][\A token \in Tokens :
       LET v == verify_session(sessions, now, token)
       IN /\ v.ok <=> InSessionWindow(token)
          /\ verify_session(sessions', now', token).ok <=> InSessionWindow(token)'
          /\ tokens[token].logged_out => ~sessions[token].exists
          /\ (sessions[token].exists /\ now > sessions[token].expires)
               => v.sessions = [sessions EXCEPT ![token] = NoSession]
          /\ (tokens[token].issued # NoTime /\ ~v.ok /\ tokens'[token].issued # NoTime)
               => ~verify_session(sessions', now', token).ok
          /\ (/\ tokens'[token].checked # tokens[token].checked
              /\ tokens'[token].issued = tokens[token].issued)
               => /\ sessions' = v.sessions
                  /\ tokens'[token].checked = "accepted" <=> v.ok]_vars

\* A token was checked after its expiry time without a logout: it was
\* rejected and its record is gone, while a younger token is accepted at
\* the very instant of its expiry.
C39_Witness ==
  \E old, young \in Tokens :
    /\ tokens[old].issued # NoTime /\ ~tokens[old].logged_out
    /\ now > tokens[old].issued + SessionSeconds
    /\ tokens[old].checked = "rejected" /\ ~sessions[old].exists
    /\ tokens[young].issued # NoTime
    /\ now = tokens[young].issued + SessionSeconds
    /\ tokens[young].checked = "accepted" /\ sessions[young].exists

\* C40: at most one stored model configuration is the default, and a
\* configuration added or updated as default is the only default afterwards.
C40_SingleDefault ==
  [][/\ Cardinality(Defaults(model_configs)) <= 1
     /\ Cardinality(Defaults(model_configs')) <= 1
     /\ \A m \in ModelIds :
          (/\ model_configs'[m].exists /\ model_configs'[m].is_default
           /\ model_configs'[m] # model_configs[m])
          => Defaults(model_configs') = {m}]_vars

\* The default has moved: the configuration that was added as default is
\* stored and is no longer the default, a later one is.
C40_Witness ==
  \E m, n \in ModelIds :
    /\ m < n
    /\ model_configs[m].exists /\ ~model_configs[m].is_default
    /\ model_configs[n].exists /\ model_configs[n].is_default
    /\ Defaults(model_configs) = {n}
    /\ next_model_id = MaxModels + 1

====
